---- MODULE Spec2Model ----
(***************************************************************************)
(* Model of scripts/fetch_data.py: RealMadridDataFetcher and main().       *)
(*                                                                         *)
(* JSON values are modelled structurally: a JSON object is a TLA+ record   *)
(* (a key is present iff it is in the record's DOMAIN), a JSON array is a  *)
(* sequence, and the empty object, the empty array and the empty mapping   *)
(* are all <<>> (all three are falsy in Python).  A Python exception       *)
(* raised inside a task body is the outcome "fault"; a task returning True *)
(* is "ok" and one returning False is "fail".                              *)
(***************************************************************************)
EXTENDS Integers, Sequences, FiniteSets, TLC

VARIABLES
    env,        \* the process environment (holds API_FOOTBALL_KEY or not)
    pc,         \* position of the process: "main", "tasks", "finish", "exited"
    idx,        \* index (1-based) of the next entry of run()'s task list
    success,    \* run()'s counter of tasks that returned True
    data,       \* self.data, the aggregate record
    season,     \* self.season
    file,       \* content of data/real_madrid_data.json (NoFile when absent)
    saves,      \* number of save_json calls so far
    requests,   \* every requests.get issued so far, in order
    outcome,    \* per task: "none" (not yet invoked), "ok", "fail", "fault"
    invoked,    \* the task indices invoked so far, in order
    runResult,  \* what run() returned ("none" until it returns)
    exitStatus, \* status passed to sys.exit (NotExited until then)
    leagues,    \* the wire outcome handed to find_current_season
    seasonRet   \* what find_current_season returned ("none" until called)

vars == << env, pc, idx, success, data, season, file, saves, requests,
           outcome, invoked, runResult, exitStatus, leagues, seasonRet >>

-----------------------------------------------------------------------------
(* Bounds of the model *)

\* longest fixture list the fixtures endpoint returns
MaxFixtures == 2

-----------------------------------------------------------------------------
(* Program constants *)

team_id == 541
league_id == 140
Threshold == 5
H2HLast == 10

\* str(n) for a non-negative integer: its decimal digits, most significant first
RECURSIVE Str(_)
Str(n) == IF n < 10 THEN << n >> ELSE Str(n \div 10) \o << n % 10 >>

DefaultSeason == << 2, 0, 2, 4 >>

\* Python None (as returned by _make_request); no JSON body has the key "none"
None == [none |-> TRUE]

NoFile == [absent |-> TRUE]
NotExited == 0 - 1

InitData ==
    [ team_info |-> << >>, players |-> << >>, fixtures |-> << >>,
      standings |-> << >>, statistics |-> << >>, h2h |-> << >>,
      predictions |-> << >>, last_updated |-> None ]

\* the (name, func) list of run(); the h2h entries carry the lambda's arguments
Tasks ==
    << [name |-> "Team Info",     op |-> "team_info"],
       [name |-> "Standings",     op |-> "standings"],
       [name |-> "Fixtures",      op |-> "fixtures"],
       [name |-> "Players",       op |-> "players"],
       [name |-> "Statistics",    op |-> "statistics"],
       [name |-> "H2H Barcelona", op |-> "h2h", opponent_id |-> 529, opponent_name |-> "Barcelona"],
       [name |-> "H2H Atletico",  op |-> "h2h", opponent_id |-> 530, opponent_name |-> "Atletico Madrid"],
       [name |-> "H2H Valencia",  op |-> "h2h", opponent_id |-> 532, opponent_name |-> "Valencia"],
       [name |-> "H2H Sevilla",   op |-> "h2h", opponent_id |-> 536, opponent_name |-> "Sevilla"],
       [name |-> "Predictions",   op |-> "predictions"] >>

NumTasks == Len(Tasks)

-----------------------------------------------------------------------------
(* What the HTTP layer can hand to _make_request *)

\* requests.get / raise_for_status / response.json() raised
TransportFault == [kind |-> "exception"]

Json(body) == [kind |-> "json", body |-> body]

\* the bodies the API can answer with, given the non-empty "response" values R
Wires(R) ==
    { TransportFault,
      Json(<< >>),
      Json([errors |-> [token |-> "invalid"], response |-> << >>]),
      Json([errors |-> << >>]),
      Json([errors |-> << >>, response |-> << >>]) }
    \cup { Json([errors |-> << >>, response |-> r]) : r \in R }
    \cup { Json([errors |-> [token |-> "invalid"], response |-> r]) : r \in R }

\* teams: a complete entry, one whose team has no name, one without a team
TeamResponses ==
    { << [team |-> [id |-> 541, name |-> "Real Madrid"], venue |-> [name |-> "Bernabeu"]] >>,
      << [team |-> [id |-> 541]] >>,
      << [venue |-> [name |-> "Bernabeu"]] >> }

\* standings: a table holding the team's row, a league without a table, a
\* table whose first row has no team
StandingsResponses ==
    { << [league |-> [standings |-> << << [rank |-> 1, team |-> [id |-> 541]],
                                          [rank |-> 2] >> >>]] >>,
      << [league |-> [id |-> 140]] >>,
      << [league |-> [standings |-> << << [rank |-> 1],
                                          [rank |-> 2, team |-> [id |-> 541]] >> >>]] >> }

\* fixture dates: ISO-8601 strings of one fixed layout, here two characters
Dates == { << 0, 1 >>, << 1, 0 >> }

\* a match record
Match(s, d) == [status |-> [short |-> s], date |-> d]

\* an upcoming match at either date, a finished match at the earlier date,
\* and an entry that lacks fixture.status
FixtureBodies ==
    { Match("NS", d) : d \in Dates }
    \cup { Match("FT", << 0, 1 >>), [venue |-> "x"] }

\* the entry at position i of the response carries the identifier 100 + i
FixtureLists ==
    UNION { { [i \in 1..n |-> [fixture |-> ([id |-> 100 + i] @@ f[i])]] :
                f \in [1..n -> FixtureBodies] } : n \in 1..MaxFixtures }

PlayersResponses == { << [player |-> [id |-> 1]] >> }
StatisticsResponses == { [form |-> "WWD"] }
H2HResponses == { << [fixture |-> [id |-> 7]] >> }
PredictionsResponses == { << [predictions |-> [advice |-> "x"]] >> }

ResponsesFor(op) ==
    CASE op = "team_info"   -> TeamResponses
      [] op = "standings"   -> StandingsResponses
      [] op = "fixtures"    -> FixtureLists
      [] op = "players"     -> PlayersResponses
      [] op = "statistics"  -> StatisticsResponses
      [] op = "h2h"         -> H2HResponses
      [] op = "predictions" -> PredictionsResponses

-----------------------------------------------------------------------------
(* _make_request and the fetch operations.  Each fetch operation takes the  *)
(* wire outcome w its request gets (unused when it issues none), self.data   *)
(* d and self.season s, and yields its outcome, the new self.data and the    *)
(* requests it issued.                                                       *)

\* lines 45-61: None on any exception or on a non-empty "errors" field
make_request(w) ==
    IF w.kind = "exception" THEN None
    ELSE IF "errors" \in DOMAIN w.body /\ w.body.errors # << >> THEN None
    ELSE w.body

\* `result and result.get('response')`
has_response(result) ==
    /\ result # None
    /\ result # << >>
    /\ "response" \in DOMAIN result
    /\ result.response # << >>

Res(out, d, reqs) == [out |-> out, data |-> d, reqs |-> reqs]

Req(endpoint, params) == [endpoint |-> endpoint, params |-> params]

fetch_team_info(w, d, s) ==
    LET req    == Req("teams", [id |-> team_id])
        result == make_request(w)
    IN  IF has_response(result)
        THEN LET team_data == result.response[1]
             IN  IF "team" \notin DOMAIN team_data
                 THEN Res("fault", d, << req >>)
                 ELSE LET d2 == [d EXCEPT !.team_info =
                                   [team  |-> team_data.team,
                                    venue |-> IF "venue" \in DOMAIN team_data
                                              THEN team_data.venue ELSE << >>]]
                      IN  IF "name" \notin DOMAIN team_data.team
                          THEN Res("fault", d2, << req >>)
                          ELSE Res("ok", d2, << req >>)
        ELSE Res("fail", d, << req >>)

\* the loop of lines 122-125: TRUE iff it raises
RECURSIVE scan_rows_raises(_)
scan_rows_raises(rows) ==
    IF rows = << >> THEN FALSE
    ELSE LET team == Head(rows)
         IN  IF "team" \notin DOMAIN team \/ "id" \notin DOMAIN team.team THEN TRUE
             ELSE IF team.team.id = team_id THEN "rank" \notin DOMAIN team
             ELSE scan_rows_raises(Tail(rows))

fetch_standings(w, d, s) ==
    LET req    == Req("standings", [league |-> league_id, season |-> s])
        result == make_request(w)
    IN  IF has_response(result)
        THEN LET first == result.response[1]
             IN  IF \/ "league" \notin DOMAIN first
                    \/ "standings" \notin DOMAIN first.league
                    \/ first.league.standings = << >>
                 THEN Res("fault", d, << req >>)
                 ELSE LET standings == first.league.standings[1]
                          d2 == [d EXCEPT !.standings = standings]
                      IN  IF scan_rows_raises(standings)
                          THEN Res("fault", d2, << req >>)
                          ELSE Res("ok", d2, << req >>)
        ELSE Res("fail", d, << req >>)

\* f['fixture']['status']['short'] raises
status_raises(f) ==
    \/ "fixture" \notin DOMAIN f
    \/ "status" \notin DOMAIN f.fixture
    \/ "short" \notin DOMAIN f.fixture.status

fetch_fixtures(w, d, s) ==
    LET req    == Req("fixtures", [team |-> team_id, league |-> league_id, season |-> s])
        result == make_request(w)
    IN  IF has_response(result)
        THEN LET d2 == [d EXCEPT !.fixtures = result.response]
             IN  IF \E i \in 1..Len(result.response) : status_raises(result.response[i])
                 THEN Res("fault", d2, << req >>)
                 ELSE Res("ok", d2, << req >>)
        ELSE Res("fail", d, << req >>)

fetch_players(w, d, s) ==
    LET req    == Req("players", [team |-> team_id, league |-> league_id,
                                  season |-> s, page |-> 1])
        result == make_request(w)
    IN  IF has_response(result)
        THEN Res("ok", [d EXCEPT !.players = result.response], << req >>)
        ELSE Res("fail", d, << req >>)

fetch_team_statistics(w, d, s) ==
    LET req    == Req("teams/statistics", [team |-> team_id, league |-> league_id,
                                           season |-> s])
        result == make_request(w)
    IN  IF has_response(result)
        THEN Res("ok", [d EXCEPT !.statistics = result.response], << req >>)
        ELSE Res("fail", d, << req >>)

\* faulty variant of fetch_h2h: stores whatever "response" holds, even nothing
fetch_h2h_NoGuard(opponent_id, opponent_name, w, d, s) ==
    LET req    == Req("fixtures/headtohead",
                      [h2h |-> << team_id, opponent_id >>, last |-> H2HLast])
        result == make_request(w)
    IN  IF result # None /\ "response" \in DOMAIN result
        THEN Res("ok",
                 [d EXCEPT !.h2h = (opponent_name :> result.response) @@ d.h2h],
                 << req >>)
        ELSE Res("fail", d, << req >>)

\* the parameter f"{team_id}-{opponent_id}" is kept as its two numbers
fetch_h2h(opponent_id, opponent_name, w, d, s) ==
    LET req    == Req("fixtures/headtohead",
                      [h2h |-> << team_id, opponent_id >>, last |-> H2HLast])
        result == make_request(w)
    IN  IF has_response(result)
        THEN Res("ok",
                 [d EXCEPT !.h2h = (opponent_name :> result.response) @@ d.h2h],
                 << req >>)
        ELSE Res("fail", d, << req >>)

\* Python's < on two strings, character by character
RECURSIVE str_less(_, _)
str_less(a, b) ==
    IF a = << >> THEN b # << >>
    ELSE IF b = << >> THEN FALSE
    ELSE IF Head(a) < Head(b) THEN TRUE
    ELSE IF Head(b) < Head(a) THEN FALSE
    ELSE str_less(Tail(a), Tail(b))

\* x placed into the sorted list after every entry whose date is not later
RECURSIVE insert_by_date(_, _)
insert_by_date(x, sorted) ==
    IF sorted = << >> THEN << x >>
    ELSE IF str_less(x.fixture.date, Head(sorted).fixture.date)
         THEN << x >> \o sorted
         ELSE << Head(sorted) >> \o insert_by_date(x, Tail(sorted))

\* list.sort(key=lambda x: x['fixture']['date']): ascending and stable
RECURSIVE sort_by_date(_)
sort_by_date(l) ==
    IF l = << >> THEN << >>
    ELSE insert_by_date(l[Len(l)], sort_by_date(SubSeq(l, 1, Len(l) - 1)))

is_upcoming(f) == f.fixture.status.short = "NS"

fetch_predictions(w, d, s) ==
    IF d.fixtures = << >> THEN Res("fail", d, << >>)
    ELSE IF \E i \in 1..Len(d.fixtures) : status_raises(d.fixtures[i])
    THEN Res("fault", d, << >>)
    ELSE LET upcoming == SelectSeq(d.fixtures, is_upcoming)
         IN  IF upcoming = << >> THEN Res("fail", d, << >>)
             ELSE LET fixture_id == sort_by_date(upcoming)[1].fixture.id
                      req    == Req("predictions", [fixture |-> fixture_id])
                      result == make_request(w)
                  IN  IF has_response(result)
                      THEN Res("ok", [d EXCEPT !.predictions = result.response[1]],
                               << req >>)
                      ELSE Res("fail", d, << req >>)

\* the task at position i of run()'s list, called
call_task(i, w, d, s) ==
    LET t == Tasks[i]
    IN  CASE t.op = "team_info"   -> fetch_team_info(w, d, s)
          [] t.op = "standings"   -> fetch_standings(w, d, s)
          [] t.op = "fixtures"    -> fetch_fixtures(w, d, s)
          [] t.op = "players"     -> fetch_players(w, d, s)
          [] t.op = "statistics"  -> fetch_team_statistics(w, d, s)
          [] t.op = "h2h"         -> fetch_h2h(t.opponent_id, t.opponent_name, w, d, s)
          [] t.op = "predictions" -> fetch_predictions(w, d, s)

-----------------------------------------------------------------------------
(* find_current_season *)

seasons_of(league) ==
    IF "seasons" \in DOMAIN league THEN league.seasons ELSE << >>

\* the year of the first entry of the list marked current, None if there is none
RECURSIVE first_current(_)
first_current(seasons) ==
    IF seasons = << >> THEN None
    ELSE IF "current" \in DOMAIN Head(seasons) /\ Head(seasons).current
         THEN [year |-> Head(seasons).year]
         ELSE first_current(Tail(seasons))

\* the loop of lines 73-80 over the leagues of the response
RECURSIVE scan_leagues(_)
scan_leagues(ls) ==
    IF ls = << >> THEN None
    ELSE LET hit == first_current(seasons_of(Head(ls)))
         IN  IF hit # None THEN hit ELSE scan_leagues(Tail(ls))

find_current_season(w, s) ==
    LET req    == Req("leagues", [id |-> league_id, current |-> "true"])
        result == make_request(w)
    IN  IF has_response(result)
        THEN LET hit    == scan_leagues(result.response)
                 league == result.response[Len(result.response)]
             IN  IF hit # None
                 THEN [ret |-> TRUE, season |-> Str(hit.year), reqs |-> << req >>]
                 ELSE IF seasons_of(league) # << >>
                 THEN [ret |-> TRUE,
                       season |-> Str(seasons_of(league)[Len(seasons_of(league))].year),
                       reqs |-> << req >>]
                 ELSE [ret |-> FALSE, season |-> s, reqs |-> << req >>]
        ELSE [ret |-> FALSE, season |-> s, reqs |-> << req >>]

-----------------------------------------------------------------------------
(* save_json, run and main *)

\* lines 230-241: stamp last_updated and metadata, write the whole record
save_json(d, s) ==
    [last_updated |-> [iso |-> "now"],
     metadata |-> [team_id |-> team_id, league_id |-> league_id, season |-> s]]
    @@ d

\* os.getenv('API_FOOTBALL_KEY')
getenv(e) == IF "API_FOOTBALL_KEY" \in DOMAIN e THEN e.API_FOOTBALL_KEY ELSE "<None>"

\* faulty variant of key_missing: an empty credential is accepted
key_missing_UnsetOnly(api_key) == api_key = "<None>"

\* `not api_key`: the variable is unset or empty
key_missing(api_key) == api_key = "<None>" \/ api_key = ""

\* faulty variant of count_task: whatever did not return False is counted
count_task_NotFail(out, n) == IF out # "fail" THEN n + 1 ELSE n

\* the try/except of lines 268-272: the counter after the task's outcome
count_task(out, n) == IF out = "ok" THEN n + 1 ELSE n

\* faulty variant of fault_propagates: no except clause, the fault leaves run()
fault_propagates_Uncaught(out) == out = "fault"

\* line 272: a fault is swallowed, the loop goes on
fault_propagates(out) == FALSE

\* faulty variant of run_returns: strictly more than the threshold
run_returns_Strict(n) == n > Threshold

\* line 280
run_returns(n) == n >= Threshold

\* line 307
exit_code(ok) == IF ok THEN 0 ELSE 1

-----------------------------------------------------------------------------
(* Bounds and inputs of find_current_season *)

MaxLeagues == 2
MaxSeasons == 2

Years == { 2023, 2024, 2025 }

SeasonEntries == [year : Years, current : BOOLEAN]

SeasonLists == UNION { [1..n -> SeasonEntries] : n \in 0..MaxSeasons }

LeagueEntries ==
    { [league |-> [id |-> league_id], seasons |-> l] : l \in SeasonLists }
    \cup { [league |-> [id |-> league_id]] }

LeagueResponses == UNION { [1..n -> LeagueEntries] : n \in 1..MaxLeagues }

-----------------------------------------------------------------------------
(* The process *)

Environments ==
    { << >>, [API_FOOTBALL_KEY |-> ""], [API_FOOTBALL_KEY |-> "secret"] }

\* self.data and self.season hold their __init__ values from the start: no
\* step reads them before the fetcher is constructed
Init ==
    /\ env \in Environments
    /\ pc = "main"
    /\ idx = 1
    /\ success = 0
    /\ data = InitData
    /\ season = DefaultSeason
    /\ file = NoFile
    /\ saves = 0
    /\ requests = << >>
    /\ outcome = [i \in 1..NumTasks |-> "none"]
    /\ invoked = << >>
    /\ runResult = "none"
    /\ exitStatus = NotExited
    /\ leagues = TransportFault
    /\ seasonRet = "none"

\* lines 285-289 and 306-307: no credential, main returns False, exit status 1
MainNoKey ==
    /\ pc = "main"
    /\ key_missing(getenv(env))
    /\ pc' = "exited"
    /\ exitStatus' = exit_code(FALSE)
    /\ UNCHANGED << env, idx, success, data, season, file, saves, requests,
                    outcome, invoked, runResult, leagues, seasonRet >>

\* lines 293-294 and 266: the fetcher is constructed and run() entered
MainStart ==
    /\ pc = "main"
    /\ ~ key_missing(getenv(env))
    /\ pc' = "tasks"
    /\ idx' = 1
    /\ success' = 0
    /\ data' = InitData
    /\ season' = DefaultSeason
    /\ UNCHANGED << env, file, saves, requests, outcome, invoked, runResult,
                    exitStatus, leagues, seasonRet >>

\* lines 267-272: one iteration of run()'s loop, on the task at position i.
\* An exception that left the loop would end the process with status 1.
RunTask(i) ==
    /\ pc = "tasks"
    /\ idx = i
    /\ \E w \in Wires(ResponsesFor(Tasks[i].op)) :
         LET r == call_task(i, w, data, season)
         IN  /\ data' = r.data
             /\ requests' = requests \o r.reqs
             /\ outcome' = [outcome EXCEPT ![i] = r.out]
             /\ invoked' = Append(invoked, i)
             /\ IF fault_propagates(r.out)
                THEN /\ pc' = "exited"
                     /\ exitStatus' = 1
                     /\ UNCHANGED << idx, success >>
                ELSE /\ success' = count_task(r.out, success)
                     /\ idx' = i + 1
                     /\ pc' = IF i = NumTasks THEN "finish" ELSE "tasks"
                     /\ UNCHANGED exitStatus
    /\ UNCHANGED << env, season, file, saves, runResult, leagues, seasonRet >>

TaskTeamInfo == RunTask(1)
TaskStandings == RunTask(2)
TaskFixtures == RunTask(3)
TaskPlayers == RunTask(4)
TaskStatistics == RunTask(5)
TaskH2H == \E i \in 6..9 : RunTask(i)
TaskPredictions == RunTask(10)

\* lines 274-280: save_json, then run() returns
RunFinish ==
    /\ pc = "finish"
    /\ data' = save_json(data, season)
    /\ file' = save_json(data, season)
    /\ saves' = saves + 1
    /\ runResult' = run_returns(success)
    /\ pc' = "returned"
    /\ UNCHANGED << env, idx, success, season, requests, outcome, invoked,
                    exitStatus, leagues, seasonRet >>

\* lines 296-301 and 306-307
MainExit ==
    /\ pc = "returned"
    /\ exitStatus' = exit_code(runResult)
    /\ pc' = "exited"
    /\ UNCHANGED << env, idx, success, data, season, file, saves, requests,
                    outcome, invoked, runResult, leagues, seasonRet >>

Next ==
    \/ MainNoKey
    \/ MainStart
    \/ TaskTeamInfo
    \/ TaskStandings
    \/ TaskFixtures
    \/ TaskPlayers
    \/ TaskStatistics
    \/ TaskH2H
    \/ TaskPredictions
    \/ RunFinish
    \/ MainExit

Spec == Init /\ [][Next]_vars

\* find_current_season called on a freshly constructed fetcher
SeasonInit ==
    /\ env = [API_FOOTBALL_KEY |-> "secret"]
    /\ pc = "season"
    /\ idx = 1
    /\ success = 0
    /\ data = InitData
    /\ season = DefaultSeason
    /\ file = NoFile
    /\ saves = 0
    /\ requests = << >>
    /\ outcome = [i \in 1..NumTasks |-> "none"]
    /\ invoked = << >>
    /\ runResult = "none"
    /\ exitStatus = NotExited
    /\ leagues \in Wires(LeagueResponses)
    /\ seasonRet = "none"

FindCurrentSeason ==
    /\ pc = "season"
    /\ LET r == find_current_season(leagues, season)
       IN  /\ season' = r.season
           /\ seasonRet' = IF r.ret THEN "true" ELSE "false"
           /\ requests' = requests \o r.reqs
    /\ pc' = "season_done"
    /\ UNCHANGED << env, idx, success, data, file, saves, outcome, invoked,
                    runResult, exitStatus, leagues >>

SeasonNext == FindCurrentSeason

SeasonSpec == SeasonInit /\ [][SeasonNext]_vars

-----------------------------------------------------------------------------
(* Vocabulary of the properties *)

TaskIds == 1..NumTasks

Succeeded == { i \in TaskIds : outcome[i] = "ok" }

CredentialAbsent ==
    "API_FOOTBALL_KEY" \notin DOMAIN env \/ env.API_FOOTBALL_KEY = ""

NineKeys ==
    { "team_info", "players", "fixtures", "standings", "statistics", "h2h",
      "predictions", "last_updated", "metadata" }

DataKeys ==
    { "team_info", "players", "fixtures", "standings", "statistics", "h2h",
      "predictions" }

\* the field (for h2h: the entry) that task i writes is at its initial value
OwnedEmpty(i, d) ==
    LET t == Tasks[i]
    IN  CASE t.op = "team_info"   -> d.team_info = << >>
          [] t.op = "standings"   -> d.standings = << >>
          [] t.op = "fixtures"    -> d.fixtures = << >>
          [] t.op = "players"     -> d.players = << >>
          [] t.op = "statistics"  -> d.statistics = << >>
          [] t.op = "h2h"         -> t.opponent_name \notin DOMAIN d.h2h
          [] t.op = "predictions" -> d.predictions = << >>

\* the wire outcomes that are a failure signal or carry no "response"
NoResponseWires ==
    { TransportFault,
      Json(<< >>),
      Json([errors |-> [token |-> "invalid"], response |-> << >>]),
      Json([errors |-> [token |-> "invalid"],
            response |-> << [fixture |-> [id |-> 7]] >>]),
      Json([errors |-> << >>]),
      Json([errors |-> << >>, response |-> << >>]) }

PredictionRequests ==
    { k \in 1..Len(requests) : requests[k].endpoint = "predictions" }

\* entry f of the stored list is a fixture whose status code is "NS"
HasStatusNS(f) ==
    /\ "fixture" \in DOMAIN f
    /\ "status" \in DOMAIN f.fixture
    /\ "short" \in DOMAIN f.fixture.status
    /\ f.fixture.status.short = "NS"

UpcomingIdx == { k \in 1..Len(data.fixtures) : HasStatusNS(data.fixtures[k]) }

\* the instant a date string denotes
Instant(date) == 10 * date[1] + date[2]

EarliestUpcomingIdx ==
    { k \in UpcomingIdx :
        \A m \in UpcomingIdx :
            Instant(data.fixtures[k].fixture.date) <= Instant(data.fixtures[m].fixture.date) }

WellFormedFixtures ==
    \A k \in 1..Len(data.fixtures) : ~ status_raises(data.fixtures[k])

-----------------------------------------------------------------------------
(* Properties *)

\* C1: run() returns true iff at least 5 of the 10 tasks reported success (a
\* task that raised is not a success), and the exit status is 0 exactly when
\* run() returned true and 1 otherwise.
C1_ThresholdAndExit ==
    /\ pc \in {"returned", "exited"} /\ Len(invoked) = 10
         => runResult = (Cardinality(Succeeded) >= 5)
    /\ pc = "exited"
         => exitStatus = IF Len(invoked) = 10 /\ runResult THEN 0 ELSE 1

\* C1 happens: exactly five successes, run() returned true, exit status 0
C1_Witness ==
    /\ pc = "exited"
    /\ Cardinality(Succeeded) = 5
    /\ runResult = TRUE
    /\ exitStatus = 0

\* C2: a fault raised inside a task does not stop the loop (every later task
\* is invoked) and is counted as a failure of that task only: the counter is
\* the number of tasks that returned true, and a faulted fixtures task gives
\* predictions no success it would not have had after a plain failure.
C2_FaultIsolated ==
    \A i \in TaskIds :
        outcome[i] = "fault" =>
            /\ idx > i
            /\ pc \in {"tasks", "finish", "returned", "exited"}
            /\ pc = "exited" => invoked = [k \in 1..10 |-> k]
            /\ success = Cardinality(Succeeded)
            /\ \A j \in 1..(idx - 1) : outcome[j] # "none"
            /\ (i = 3 => outcome[10] # "ok")

\* C2 happens: two tasks faulted, later ones ran and one of them succeeded
C2_Witness ==
    /\ pc = "exited"
    /\ outcome[1] = "fault"
    /\ outcome[3] = "fault"
    /\ outcome[4] = "ok"
    /\ outcome[10] = "fault"
    /\ success = 1

\* C3: the record save_json writes has all nine top-level keys, and when
\* every task failed the seven data keys hold their empty defaults.
C3_NineKeysEmptyDefaults ==
    file # NoFile =>
        /\ DOMAIN file = NineKeys
        /\ (Succeeded = {} => \A k \in DataKeys : file[k] = << >>)

\* C4: with the credential absent or empty the process exits with a nonzero
\* status, issuing no request, running no task and writing no file.
C4_NoCredential ==
    CredentialAbsent =>
        /\ pc \in {"main", "exited"}
        /\ pc = "main" => ENABLED MainNoKey /\ ~ ENABLED MainStart
        /\ pc = "exited" => exitStatus # 0 /\ exitStatus # NotExited
        /\ requests = << >>
        /\ invoked = << >>
        /\ \A i \in TaskIds : outcome[i] = "none"
        /\ file = NoFile
        /\ saves = 0

\* C4 happens: the variable is set but empty, and the process has exited
C4_Witness ==
    /\ env = [API_FOOTBALL_KEY |-> ""]
    /\ pc = "exited"
    /\ exitStatus = 1

\* C5: a fetch operation whose request comes back as a failure signal, or
\* with "response" missing or empty, returns failure and modifies no key of
\* the record; the field it owns is still at its initial empty value.
C5_NoResponseNoChange ==
    /\ \A i \in TaskIds : outcome[i] = "fail" => OwnedEmpty(i, data)
    /\ \A i \in TaskIds : \A w \in NoResponseWires :
         pc = "tasks" /\ idx = i =>
            LET r == call_task(i, w, data, season)
            IN  r.reqs # << >> =>
                    /\ r.out = "fail"
                    /\ r.data = data
                    /\ OwnedEmpty(i, r.data)

\* C5 happens: team info, an h2h fetch after a successful one, and a
\* predictions request all came back empty-handed
C5_Witness ==
    /\ outcome[1] = "fail"
    /\ outcome[6] = "ok"
    /\ outcome[7] = "fail"
    /\ outcome[10] = "fail"
    /\ PredictionRequests # {}

\* C6: fetch_predictions returns failure and issues no request whenever the
\* stored fixtures are empty or hold no fixture with status "NS"; a
\* predictions request is issued only when some stored fixture has status "NS".
C6_NoUpcomingNoRequest ==
    outcome[10] # "none" =>
        /\ UpcomingIdx = {} => outcome[10] = "fail" /\ PredictionRequests = {}
        /\ PredictionRequests # {} => UpcomingIdx # {}

\* C7: whenever the stored fixture list holds a fixture with status "NS",
\* fetch_predictions requests predictions for the identifier of the "NS"
\* fixture with the earliest date.
C7_EarliestUpcomingRequested ==
    outcome[10] # "none" /\ UpcomingIdx # {} =>
        \E k \in PredictionRequests : \E m \in EarliestUpcomingIdx :
            requests[k].params.fixture = data.fixtures[m].fixture.id

\* C9: the ten tasks are invoked once each in the fixed order, and save_json
\* is called exactly once, after the last task, whatever the outcomes.
C9_OrderThenPersist ==
    /\ Len(invoked) <= 10
    /\ \A k \in 1..Len(invoked) : invoked[k] = k
    /\ saves <= 1
    /\ saves = 1 => Len(invoked) = 10 /\ file # NoFile
    /\ pc \in {"returned", "exited"} /\ ~ CredentialAbsent =>
          /\ Len(invoked) = 10
          /\ saves = 1
          /\ [k \in 1..10 |-> Tasks[invoked[k]].name] =
                << "Team Info", "Standings", "Fixtures", "Players", "Statistics",
                   "H2H Barcelona", "H2H Atletico", "H2H Valencia", "H2H Sevilla",
                   "Predictions" >>

\* C9 happens: every task failed or faulted and the record was still written
C9_Witness ==
    /\ pc = "exited"
    /\ success = 0
    /\ outcome[2] = "fault"
    /\ outcome[5] = "fail"
    /\ saves = 1
    /\ file # NoFile

\* C10: a task not counted as a success (it returned failure or raised)
\* leaves the field it owns at its initial empty value.
C10_FailedTaskLeavesFieldEmpty ==
    \A i \in TaskIds :
        outcome[i] \in {"fail", "fault"} => OwnedEmpty(i, data)

-----------------------------------------------------------------------------
(* Properties of find_current_season *)

CallSucceeded ==
    /\ leagues.kind = "json"
    /\ leagues.body # << >>
    /\ ~ ("errors" \in DOMAIN leagues.body /\ leagues.body.errors # << >>)
    /\ "response" \in DOMAIN leagues.body
    /\ leagues.body.response # << >>

\* every season entry of the response
SeasonsInResponse ==
    LET resp == leagues.body.response
    IN  UNION { IF "seasons" \in DOMAIN resp[k]
                THEN { resp[k].seasons[m] : m \in 1..Len(resp[k].seasons) }
                ELSE {} : k \in 1..Len(resp) }

\* C8: on a successful non-empty response the season becomes the year of an
\* entry marked current; if none is marked current it becomes the year of
\* the chronologically last season entry of the response and the operation
\* returns true; if the call fails the default stays and it returns false.
C8_SeasonResolution ==
    pc = "season_done" =>
        IF CallSucceeded
        THEN LET cur == { e \in SeasonsInResponse : e.current }
             IN  IF cur # {}
                 THEN \E e \in cur : season = Str(e.year) /\ seasonRet = "true"
                 ELSE SeasonsInResponse # {} =>
                        /\ seasonRet = "true"
                        /\ \E e \in SeasonsInResponse :
                             /\ season = Str(e.year)
                             /\ \A o \in SeasonsInResponse : o.year <= e.year
        ELSE season = DefaultSeason /\ seasonRet = "false"

-----------------------------------------------------------------------------
(* What holds of fetch_predictions when every stored entry has a status, and *)
(* of save_json when every task returned failure                             *)

\* the request is keyed to the first of the earliest "NS" fixtures
SelectionWhenWellFormed ==
    outcome[10] # "none" /\ WellFormedFixtures /\ UpcomingIdx # {} =>
        /\ Cardinality(PredictionRequests) = 1
        /\ \A k \in PredictionRequests : \E m \in EarliestUpcomingIdx :
             /\ requests[k].params.fixture = data.fixtures[m].fixture.id
             /\ \A o \in EarliestUpcomingIdx : m <= o

NoRequestWhenWellFormed ==
    outcome[10] # "none" /\ WellFormedFixtures /\ UpcomingIdx = {} =>
        outcome[10] = "fail" /\ PredictionRequests = {}

RequestOnlyForUpcoming == PredictionRequests # {} => UpcomingIdx # {}

KeysAlwaysPresent == file # NoFile => DOMAIN file = NineKeys

DefaultsWhenAllReturnFailure ==
    file # NoFile /\ (\A i \in TaskIds : outcome[i] = "fail") =>
        \A k \in DataKeys : file[k] = << >>

====
